---------------------------- MODULE Spec2Model ----------------------------
(***************************************************************************)
(* Model of the ignore-file engine of demisto_integrator/cli.py:           *)
(* IgnorePattern (the pattern compiler and the per-rule match),            *)
(* IgnoredFiles (load of the ignore file, add, match,                      *)
(* remove_ignored_folders) and list_files (the pruning walk).              *)
(*                                                                         *)
(* Strings are sequences of one-character strings, so that slicing,        *)
(* startswith/endswith, basename and the regular expressions are computed  *)
(* character by character as the Python code computes them.                *)
(***************************************************************************)
EXTENDS Integers, Sequences, FiniteSets, TLC

(***************************************************************************)
(* Bounds of the model                                                     *)
(***************************************************************************)
\* Longest ignore file (in lines) drawn from LinePool.
MaxLines == 2

(***************************************************************************)
(* Python str helpers                                                      *)
(***************************************************************************)
\* Python None for an optional str (IgnorePattern.exact_match): a value no
\* character sequence equals.
None == <<"None">>

startswith(s, p) == Len(p) <= Len(s) /\ SubSeq(s, 1, Len(p)) = p

endswith(s, p) == Len(p) <= Len(s) /\ SubSeq(s, Len(s) - Len(p) + 1, Len(s)) = p

\* Python `p in s` for strings.
contains(s, p) ==
    \E i \in 1..(Len(s) - Len(p) + 1) : SubSeq(s, i, i + Len(p) - 1) = p

\* Index of the first occurrence of p in s (0 when absent).
find(s, p) ==
    IF contains(s, p)
    THEN CHOOSE i \in 1..(Len(s) - Len(p) + 1) :
            /\ SubSeq(s, i, i + Len(p) - 1) = p
            /\ \A j \in 1..(i - 1) : SubSeq(s, j, j + Len(p) - 1) # p
    ELSE 0

\* str.partition(sep): the text before and after the first sep.
partition(s, sep) ==
    LET i == find(s, sep)
    IN  IF i = 0
        THEN [first |-> s, second |-> <<>>]
        ELSE [first |-> SubSeq(s, 1, i - 1),
              second |-> SubSeq(s, i + Len(sep), Len(s))]

Whitespace == {" ", "\t", "\n"}

RECURSIVE lstrip(_)
lstrip(s) == IF s # <<>> /\ Head(s) \in Whitespace THEN lstrip(Tail(s)) ELSE s

RECURSIVE rstrip(_)
rstrip(s) ==
    IF s # <<>> /\ s[Len(s)] \in Whitespace
    THEN rstrip(SubSeq(s, 1, Len(s) - 1))
    ELSE s

\* str.strip()
strip(s) == rstrip(lstrip(s))

\* str.replace(old, ""): every non-overlapping occurrence of old, left to
\* right, is removed.
RECURSIVE replace(_, _)
replace(s, old) ==
    IF s = <<>> THEN <<>>
    ELSE IF old # <<>> /\ startswith(s, old)
         THEN replace(SubSeq(s, Len(old) + 1, Len(s)), old)
         ELSE <<Head(s)>> \o replace(Tail(s), old)

\* os.path.basename: the text after the last "/".
RECURSIVE basename(_)
basename(path) ==
    IF contains(path, <<"/">>)
    THEN basename(SubSeq(path, find(path, <<"/">>) + 1, Len(path)))
    ELSE path

\* os.path.join(root, name) for a relative name and a root without a
\* trailing separator.
join(root, name) == root \o <<"/">> \o name

(***************************************************************************)
(* Regular expressions                                                     *)
(*                                                                         *)
(* A compiled regex is a sequence of tokens: a literal character, `.`,     *)
(* `.*`, the group `(/.*/|/)?` and the end anchor `\Z`.  These are the     *)
(* only constructs the compiler emits for patterns without "[".            *)
(***************************************************************************)
Lit(ch) == [t |-> "lit", c |-> ch]
Dot == [t |-> "dot", c |-> ""]
DotStar == [t |-> "dotstar", c |-> ""]
OptMiddle == [t |-> "optmiddle", c |-> ""]
EndAnchor == [t |-> "end", c |-> ""]

\* Python None for IgnorePattern.regex.
NoRegex == <<[t |-> "none", c |-> ""]>>

\* re.escape(s): every character of s matches itself only.
re_escape(s) == [i \in 1..Len(s) |-> Lit(s[i])]

\* re.match(regex, name) from token ti and position si: the regex must
\* match starting at the first character; where the match ends is free
\* unless the regex ends with \Z.
RECURSIVE match_from(_, _, _, _)
match_from(regex, ti, name, si) ==
    IF ti > Len(regex) THEN TRUE
    ELSE LET tok == regex[ti]
             n == Len(name)
         IN  CASE tok.t = "lit" ->
                    /\ si <= n
                    /\ name[si] = tok.c
                    /\ match_from(regex, ti + 1, name, si + 1)
               [] tok.t = "dot" ->
                    /\ si <= n
                    /\ match_from(regex, ti + 1, name, si + 1)
               [] tok.t = "dotstar" ->
                    \E k \in si..(n + 1) : match_from(regex, ti + 1, name, k)
               [] tok.t = "optmiddle" ->
                    \/ match_from(regex, ti + 1, name, si)
                    \/ /\ si <= n
                       /\ name[si] = "/"
                       /\ \/ match_from(regex, ti + 1, name, si + 1)
                          \/ \E k \in (si + 1)..n :
                                /\ name[k] = "/"
                                /\ match_from(regex, ti + 1, name, k + 1)
               [] tok.t = "end" ->
                    /\ si = n + 1
                    /\ match_from(regex, ti + 1, name, si)
               [] OTHER -> FALSE

re_match(regex, name) == match_from(regex, 1, name, 1)

\* One character of a shell glob, as fnmatch.translate turns it into regex.
glob_token(ch) ==
    IF ch = "*" THEN DotStar
    ELSE IF ch = "?" THEN Dot
    ELSE Lit(ch)

\* fnmatch.translate(pat) for patterns without "[": `*` is `.*`, `?` is `.`,
\* any other character is escaped, and the result ends with \Z.
fnmatch_translate(pat) ==
    [i \in 1..Len(pat) |-> glob_token(pat[i])] \o <<EndAnchor>>

(***************************************************************************)
(* IgnorePattern                                                           *)
(***************************************************************************)
\* IgnorePattern.invalid when the pattern compiled.
NotInvalid == "None"

has_glob(pattern) == contains(pattern, <<"*">>) \/ contains(pattern, <<"?">>)

\* The fields set before any parsing.
NewPattern(pattern, line_number) ==
    [pattern |-> pattern,
     line_number |-> line_number,
     invalid |-> NotInvalid,
     applies_to_directories |-> FALSE,
     match_basename |-> FALSE,
     exact_match |-> None,
     regex |-> NoRegex]

\* TrailingSlash with the flag forgotten: the slash is stripped only.
TrailingSlash_FlagForgotten(self, pattern) ==
    IF endswith(pattern, <<"/">>) /\ ~endswith(pattern, <<"*", "/">>)
    THEN [self |-> self, pattern |-> SubSeq(pattern, 1, Len(pattern) - 1)]
    ELSE [self |-> self, pattern |-> pattern]

\* A pattern ending with "/" (not "*/") applies to directories only, and
\* loses the slash.
TrailingSlash(self, pattern) ==
    IF endswith(pattern, <<"/">>) /\ ~endswith(pattern, <<"*", "/">>)
    THEN [self |-> [self EXCEPT !.applies_to_directories = TRUE],
          pattern |-> SubSeq(pattern, 1, Len(pattern) - 1)]
    ELSE [self |-> self, pattern |-> pattern]

\* The branch `if pattern.startswith('**/')`, pattern being the text after
\* the "**/".
LeadingDoubleStar(self, pattern) ==
    IF has_glob(pattern)
    THEN [self EXCEPT !.invalid = "Too complex"]
    ELSE IF pattern = <<>>
    THEN [self EXCEPT !.match_basename = TRUE, !.regex = <<DotStar>>]
    ELSE IF contains(pattern, <<"/">>)
    THEN [self EXCEPT !.match_basename = FALSE,
                      !.regex = <<DotStar, Lit("/")>> \o re_escape(pattern)]
    ELSE [self EXCEPT !.match_basename = TRUE, !.exact_match = pattern]

\* The branch `if '/**/' in pattern`.
MiddleDoubleStar(self, pattern) ==
    LET p == partition(pattern, <<"/", "*", "*", "/">>)
    IN  IF has_glob(p.first \o p.second)
        THEN [self EXCEPT !.invalid = "Too complex"]
        ELSE [self EXCEPT !.regex =
                 re_escape(p.first) \o <<OptMiddle>> \o re_escape(p.second)]

\* The last lines of __init__: anchoring, then glob or exact match.
PlainPattern(self, pattern) ==
    LET anchored == startswith(pattern, <<"/">>)
        pat == IF anchored THEN Tail(pattern) ELSE pattern
        s == IF anchored THEN [self EXCEPT !.match_basename = FALSE]
             ELSE IF ~contains(pattern, <<"/">>)
                  THEN [self EXCEPT !.match_basename = TRUE]
                  ELSE self
    IN  IF has_glob(pat)
        THEN [s EXCEPT !.regex = fnmatch_translate(pat)]
        ELSE [s EXCEPT !.exact_match = pat]

\* What follows the leading-"**/" test: the trailing "/**" branch, the
\* middle "/**/" branch, the bare "**" rejection, and the plain pattern.
AfterLeading(self, pattern) ==
    LET trailing == endswith(pattern, <<"/", "*", "*">>)
        pat == IF trailing THEN SubSeq(pattern, 1, Len(pattern) - 3) ELSE pattern
    IN  IF trailing /\ has_glob(pat)
        THEN [self EXCEPT !.invalid = "Too complex"]
        ELSE LET s == IF trailing
                      THEN [self EXCEPT !.applies_to_directories = TRUE]
                      ELSE self
             IN  IF trailing /\ pat = <<>>
                 THEN [s EXCEPT !.match_basename = TRUE, !.regex = <<DotStar>>]
                 ELSE IF contains(pat, <<"/", "*", "*", "/">>)
                 THEN MiddleDoubleStar(s, pat)
                 ELSE IF contains(pat, <<"*", "*">>)
                 THEN [s EXCEPT !.invalid = "Not supported"]
                 ELSE PlainPattern(s, pat)

\* IgnorePattern.__init__
IgnorePattern(pattern, line_number) ==
    LET t == TrailingSlash(NewPattern(pattern, line_number), pattern)
    IN  IF startswith(t.pattern, <<"*", "*", "/">>)
        THEN LeadingDoubleStar(t.self, SubSeq(t.pattern, 4, Len(t.pattern)))
        ELSE AfterLeading(t.self, t.pattern)


(***************************************************************************)
(* String literals, one character per element                              *)
(***************************************************************************)
Str_ROOT == <<"/", "r">>
Str_A_TXT == <<"a", ".", "t", "x", "t">>
Str_BUILD == <<"b", "u", "i", "l", "d">>
Str_BUILD_OUT == <<"b", "u", "i", "l", "d", "/", "o", "u", "t", "p", "u", "t", ".", "b", "i", "n">>
Str_DOTGIT == <<".", "g", "i", "t">>
Str_GIT_HEAD == <<".", "g", "i", "t", "/", "H", "E", "A", "D">>
Str_TEMP == <<"t", "e", "m", "p">>
Str_TEMP_XLOG == <<"t", "e", "m", "p", "/", "x", ".", "l", "o", "g">>
Str_FOO == <<"f", "o", "o">>
Str_A == <<"a">>
Str_A_B == <<"a", "/", "b">>
Str_A_X == <<"a", "/", "x">>
Str_A_X_B == <<"a", "/", "x", "/", "b">>
Str_X == <<"x">>
Str_X_R == <<"x", "/", "r">>
Str_X_R_Y == <<"x", "/", "r", "/", "y">>
Str_X_FOO == <<"x", "/", "f", "o", "o">>
Str_X_FOO_BAR == <<"x", "/", "f", "o", "o", "/", "b", "a", "r">>
Str_AB == <<"a", "b">>
Str_L_BUILD_SLASH == <<"b", "u", "i", "l", "d", "/">>
Str_L_STAR_LOG == <<"*", ".", "l", "o", "g">>
Str_L_NEG_FOO == <<" ", "!", "f", "o", "o">>
Str_L_SLASH == <<"/">>
Str_L_BARE_STARS == <<"a", "*", "*", "b">>
Str_L_COMMENT == <<"#", "c">>
Str_L_BLANK == <<" ", " ">>
Str_P_MIDDLE == <<"a", "/", "*", "*", "/", "b">>
Str_P_MIDDLE_DIR == <<"a", "/", "*", "*", "/", "b", "/">>
Str_P_LEAD_PATH == <<"*", "*", "/", "f", "o", "o", "/", "b", "a", "r">>
Str_P_LEAD_PATH_DIR == <<"*", "*", "/", "f", "o", "o", "/", "b", "a", "r", "/">>
Str_P_LEAD_NAME == <<"*", "*", "/", "f", "o", "o">>
Str_P_LEAD_GLOB == <<"*", "*", "/", "f", "o", "*", "o">>
Str_P_LEAD_ONLY == <<"*", "*", "/">>
Str_P_TRAIL_ONLY == <<"/", "*", "*">>
Str_P_TRAIL == <<"t", "e", "m", "p", "/", "*", "*">>
Str_P_TRAIL_GLOB == <<"t", "*", "/", "*", "*">>
Str_P_ANCHORED == <<"/", "a", ".", "t", "x", "t">>
Str_P_QUESTION == <<"a", "?">>
Str_P_MIDDLE_GLOB == <<"a", "/", "*", "*", "/", "*">>
Str_P_STAR_SLASH == <<"x", "*", "/">>
Str_P_MIDDLE_ONLY == <<"/", "*", "*", "/">>
Str_P_TWO_SLASHES == <<"/", "/">>
Str_P_LEAD_NEG == <<"!", "f", "o", "o">>
Str_P_PATH == <<"x", "/", "f", "o", "o">>
Str_P_GLOB_DIR == <<"t", "?", "m", "p", "/">>
Str_A_X_Y_B == <<"a", "/", "x", "/", "y", "/", "b">>
Str_AX_B == <<"a", "x", "/", "b">>
Str_A_BX == <<"a", "/", "b", "x">>
Str_X_Y_FOO_BAR == <<"x", "/", "y", "/", "f", "o", "o", "/", "b", "a", "r">>
Str_X_FOO_BARBAZ == <<"x", "/", "f", "o", "o", "/", "b", "a", "r", "b", "a", "z">>
Str_X_FOO_BAR_MORE == <<"x", "/", "f", "o", "o", "/", "b", "a", "r", "/", "m", "o", "r", "e">>
Str_FOO_BAR == <<"f", "o", "o", "/", "b", "a", "r">>
Str_A_B_FOO == <<"a", "/", "b", "/", "f", "o", "o">>

(***************************************************************************)
(* The world: the root, the directory trees and the ignore files           *)
(***************************************************************************)
\* os.path.abspath(path): IgnoredFiles.root and list_files' mypath.
Root == Str_ROOT

\* Str_A directory tree under Root: the entries' paths are relative to Root.
Dir(path) == [path |-> path, is_dir |-> TRUE]
File(path) == [path |-> path, is_dir |-> FALSE]

TreeScenario ==
    {File(Str_A_TXT), Dir(Str_BUILD), File(Str_BUILD_OUT), Dir(Str_DOTGIT), File(Str_GIT_HEAD)}

TreeNested ==
    {Dir(Str_TEMP), File(Str_TEMP_XLOG), File(Str_FOO), Dir(Str_A), File(Str_A_B), Dir(Str_A_X),
     File(Str_A_X_B)}

TreeDeep ==
    {Dir(Str_X), Dir(Str_X_R), File(Str_X_R_Y), Dir(Str_X_FOO), File(Str_X_FOO_BAR), File(Str_AB)}

Trees == {TreeScenario, TreeNested, TreeDeep}

\* Lines an ignore file of up to MaxLines lines is made of.
LinePool ==
    {Str_L_BUILD_SLASH, Str_L_STAR_LOG, Str_L_NEG_FOO, Str_L_SLASH, Str_L_BARE_STARS, Str_L_COMMENT,
     Str_L_BLANK}

\* Patterns tried as one-line ignore files: every branch of the compiler.
PatternPool ==
    {Str_P_MIDDLE, Str_P_MIDDLE_DIR, Str_P_LEAD_PATH, Str_P_LEAD_PATH_DIR, Str_P_LEAD_NAME,
     Str_P_LEAD_GLOB, Str_P_LEAD_ONLY, Str_P_TRAIL_ONLY, Str_P_TRAIL, Str_P_TRAIL_GLOB,
     Str_P_ANCHORED, Str_P_QUESTION, Str_P_MIDDLE_GLOB, Str_P_STAR_SLASH, Str_P_MIDDLE_ONLY,
     Str_P_TWO_SLASHES, Str_P_LEAD_NEG, Str_P_PATH, Str_P_GLOB_DIR}

RECURSIVE SeqsUpTo(_, _)
SeqsUpTo(S, n) ==
    IF n = 0 THEN {<<>>}
    ELSE LET shorter == SeqsUpTo(S, n - 1)
         IN  shorter \cup {Append(q, x) : q \in shorter, x \in S}

IgnoreFiles == SeqsUpTo(LinePool, MaxLines) \cup {<<p>> : p \in PatternPool}

\* Paths (relative to Root) that Match is asked about.
QueryPaths ==
    {Str_A_B, Str_A_X_B, Str_A_X_Y_B, Str_AX_B, Str_A_BX, Str_AB, Str_X_FOO_BAR, Str_X_Y_FOO_BAR,
     Str_X_FOO_BARBAZ, Str_X_FOO_BAR_MORE, Str_FOO_BAR, Str_FOO, Str_A_B_FOO, Str_BUILD, Str_DOTGIT,
     Str_A_TXT, Str_TEMP, Str_TEMP_XLOG, Str_BUILD_OUT, Str_X, Str_A_X}

\* The is_dir argument of match: True, False or None.
Hints == {"True", "False", "None"}

(***************************************************************************)
(* IgnorePattern.match                                                     *)
(***************************************************************************)
\* os.path.isdir(full_path) in the tree fs.
isdir(fs, full_path) ==
    \/ full_path = Root
    \/ \E e \in fs : e.is_dir /\ join(Root, e.path) = full_path

\* Python truthiness of `self.exact_match`: None and "" are both false.
truthy(exact_match) == exact_match # None /\ exact_match # <<>>

\* full_path[len(self.root) + 1:]
relative(full_path) == SubSeq(full_path, Len(Root) + 2, Len(full_path))

\* IgnorePattern.match(full_path, is_dir): "True", "False", or
\* "AssertionError" when one of its two assert statements fails.
pattern_match(self, full_path, is_dir, fs) ==
    IF self.invalid # NotInvalid THEN "AssertionError"
    ELSE IF /\ self.applies_to_directories
            /\ ~(IF is_dir = "None" THEN isdir(fs, full_path) ELSE is_dir = "True")
    THEN "False"
    ELSE LET name == IF self.match_basename
                     THEN basename(full_path)
                     ELSE relative(full_path)
         IN  IF truthy(self.exact_match)
             THEN (IF name = self.exact_match THEN "True" ELSE "False")
             ELSE IF self.regex = NoRegex
             THEN "AssertionError"
             ELSE (IF re_match(self.regex, name) THEN "True" ELSE "False")

(***************************************************************************)
(* IgnoredFiles                                                            *)
(***************************************************************************)
\* A rule-shaped value standing for "no rule" in diagnostics and results.
NoRule == NewPattern(None, 0)

\* The entries of IgnoredFiles.invalid: a message, or a rejected pattern.
Message(text, line) == [text |-> text, line |-> line, rule |-> NoRule]
Rejected(pat) == [text |-> pat.invalid, line |-> pat.line_number, rule |-> pat]

\* What IgnoredFiles.match returns or raises.
Returned(rule) == [kind |-> "rule", rule |-> rule]
ReturnedNone == [kind |-> "none", rule |-> NoRule]
Raised == [kind |-> "raise", rule |-> NoRule]
NoCall == [kind |-> "nocall", rule |-> NoRule]

\* IgnoredFiles.match: the loop `for regex in self._regexes` runs over a
\* Python set of objects hashed by identity, so its order is not fixed by
\* the program.  The loop ends at the first rule that matches (returned) or
\* whose match raises; any rule that matches or raises can be that first
\* one.  None is returned when no rule does either.
match_outcomes(rules, full_path, is_dir, fs) ==
    LET stops == {r \in rules : pattern_match(r, full_path, is_dir, fs) # "False"}
    IN  IF stops = {}
        THEN {ReturnedNone}
        ELSE {IF pattern_match(r, full_path, is_dir, fs) = "True"
              THEN Returned(r) ELSE Raised : r \in stops}

\* add with the else forgotten: a rejected pattern also joins the rules.
add_KeepsRejected(rules, diags, pattern, line_number) ==
    LET pat == IgnorePattern(pattern, line_number)
    IN  IF pat.invalid # NotInvalid
        THEN [regexes |-> rules \cup {pat}, invalid |-> Append(diags, Rejected(pat))]
        ELSE [regexes |-> rules \cup {pat}, invalid |-> diags]

\* add that starts the rule set afresh when a pattern is rejected.
add_RejectionDropsRules(rules, diags, pattern, line_number) ==
    LET pat == IgnorePattern(pattern, line_number)
    IN  IF pat.invalid # NotInvalid
        THEN [regexes |-> {}, invalid |-> Append(diags, Rejected(pat))]
        ELSE [regexes |-> rules \cup {pat}, invalid |-> diags]

\* IgnoredFiles.add: the state after add(pattern, line_number).
add(rules, diags, pattern, line_number) ==
    LET pat == IgnorePattern(pattern, line_number)
    IN  IF pat.invalid # NotInvalid
        THEN [regexes |-> rules, invalid |-> Append(diags, Rejected(pat))]
        ELSE [regexes |-> rules \cup {pat}, invalid |-> diags]

\* The tests parse_gitignore makes on a stripped line.
IsSkipped(line) == IF line = <<>> THEN TRUE ELSE line[1] = "#"
\* The negation test left out: every line is a pattern.
IsNegation_Never(line) == FALSE
IsNegation(line) == IF line = <<>> THEN FALSE ELSE line[1] = "!"

\* The names os.walk yields for directory dir: its sub-directories and its
\* files.
children(fs, dir, is_dir) ==
    {join(dir, basename(e.path)) : e \in
        {e \in fs : e.is_dir = is_dir /\ join(Root, e.path) = join(dir, basename(e.path))}}

\* A set as a sequence, in an order of its own.
RECURSIVE SetToSeq(_)
SetToSeq(S) ==
    IF S = {} THEN <<>>
    ELSE LET x == CHOOSE y \in S : TRUE IN <<x>> \o SetToSeq(S \ {x})

\* remove_ignored_folders that removes nothing.
remove_ignored_folders_KeepsAll(rules, dirs, fs) == dirs

\* remove_ignored_folders asking match about files (is_dir=False).
remove_ignored_folders_AsFiles(rules, dirs, fs) ==
    {d \in dirs : match_outcomes(rules, d, "False", fs) = {ReturnedNone}}

\* remove_ignored_folders: the directories left in dirs when no match
\* raises.
remove_ignored_folders(rules, dirs, fs) ==
    {d \in dirs : match_outcomes(rules, d, "True", fs) = {ReturnedNone}}

\* list_files, the loop body: the files of one directory that are appended
\* to all_files, as the paths appended.
listed(rules, files, fs) ==
    {replace(f, Root \o <<"/">>) :
        f \in {f \in files : match_outcomes(rules, f, "False", fs) = {ReturnedNone}}}

\* Some call of match made for this directory can raise / can return.
CanRaise(rules, paths, is_dir, fs) ==
    \E p \in paths : Raised \in match_outcomes(rules, p, is_dir, fs)
CanReturn(rules, paths, is_dir, fs) ==
    \A p \in paths : match_outcomes(rules, p, is_dir, fs) # {Raised}

(***************************************************************************)
(* State                                                                   *)
(***************************************************************************)
VARIABLES
    fs,                     \* the directory tree under Root
    file_exists,            \* os.path.exists of the ignore file
    lines,                  \* the lines of the ignore file
    use_default_ignores,    \* IgnoredFiles.__init__ argument
    pc,                     \* where the program is
    line_number,            \* parse_gitignore's line_number
    regexes,                \* IgnoredFiles._regexes
    invalid,                \* IgnoredFiles.invalid
    query,                  \* arguments of the last IgnoredFiles.match call
    result,                 \* what that call returned or raised
    todo,                   \* directories os.walk has still to yield
    walked,                 \* directories os.walk has yielded
    all_files               \* list_files' all_files

vars == <<fs, file_exists, lines, use_default_ignores, pc, line_number,
          regexes, invalid, query, result, todo, walked, all_files>>

world == <<fs, file_exists, lines, use_default_ignores>>
walk == <<todo, walked, all_files>>

NoQuery == [path |-> <<>>, is_dir |-> "None"]

\* IgnoredFiles.__init__ up to the call of parse_gitignore.
Init ==
    /\ fs \in Trees
    /\ file_exists \in BOOLEAN
    /\ lines \in IgnoreFiles
    /\ file_exists = FALSE => lines = <<>>
    /\ use_default_ignores \in BOOLEAN
    /\ pc = "parse"
    /\ line_number = 0
    /\ regexes = {}
    /\ invalid = <<>>
    /\ query = NoQuery
    /\ result = NoCall
    /\ todo = {}
    /\ walked = {}
    /\ all_files = <<>>

(***************************************************************************)
(* parse_gitignore                                                         *)
(***************************************************************************)
\* The ignore file does not exist: one diagnostic, no rule.  (The except
\* clause of parse_gitignore is for failures of open and read; none of the
\* steps below can raise.)
ParseMissing ==
    /\ pc = "parse"
    /\ ~file_exists
    /\ invalid' = Append(invalid, Message("No folder", 0))
    /\ pc' = "defaults"
    /\ UNCHANGED <<world, line_number, regexes, query, result, walk>>

\* The stripped line the loop is about to read.
NextLine == strip(lines[line_number + 1])

\* One turn of the loop on a blank or comment line.
ParseSkip ==
    /\ pc = "parse"
    /\ file_exists
    /\ line_number < Len(lines)
    /\ IsSkipped(NextLine)
    /\ line_number' = line_number + 1
    /\ UNCHANGED <<world, pc, regexes, invalid, query, result, walk>>

\* One turn of the loop on a negation line.
ParseNegation ==
    /\ pc = "parse"
    /\ file_exists
    /\ line_number < Len(lines)
    /\ ~IsSkipped(NextLine)
    /\ IsNegation(NextLine)
    /\ line_number' = line_number + 1
    /\ invalid' = Append(invalid, Message("Negation pattern not supported",
                                          line_number + 1))
    /\ UNCHANGED <<world, pc, regexes, query, result, walk>>

\* One turn of the loop on any other line: self.add(line, line_number).
ParseAdd ==
    /\ pc = "parse"
    /\ file_exists
    /\ line_number < Len(lines)
    /\ ~IsSkipped(NextLine)
    /\ ~IsNegation(NextLine)
    /\ line_number' = line_number + 1
    /\ LET after == add(regexes, invalid, NextLine, line_number + 1)
       IN  /\ regexes' = after.regexes
           /\ invalid' = after.invalid
    /\ UNCHANGED <<world, pc, query, result, walk>>

\* The file is read to its end.
ParseEnd ==
    /\ pc = "parse"
    /\ file_exists
    /\ line_number = Len(lines)
    /\ pc' = "defaults"
    /\ UNCHANGED <<world, line_number, regexes, invalid, query, result, walk>>

\* The end of IgnoredFiles.__init__: the default ignores.
Defaults ==
    /\ pc = "defaults"
    /\ LET after == IF use_default_ignores
                    THEN add(regexes, invalid, Str_DOTGIT \o <<"/">>, 0)
                    ELSE [regexes |-> regexes, invalid |-> invalid]
       IN  /\ regexes' = after.regexes
           /\ invalid' = after.invalid
    /\ pc' = "ready"
    /\ UNCHANGED <<world, line_number, query, result, walk>>

(***************************************************************************)
(* Queries and the walk                                                    *)
(***************************************************************************)
\* A caller's IgnoredFiles.match(path, is_dir): the call returns a rule or
\* None, or an assertion of IgnorePattern.match fails and the exception
\* leaves the call.
Match ==
    /\ pc = "ready"
    /\ \E p \in QueryPaths, h \in Hints :
          /\ query' = [path |-> join(Root, p), is_dir |-> h]
          /\ result' \in match_outcomes(regexes, join(Root, p), h, fs)
    /\ pc' = IF result' = Raised THEN "raised" ELSE "matched"
    /\ UNCHANGED <<world, line_number, regexes, invalid, walk>>

\* The caller has used the answer and may call again.
MatchDone ==
    /\ pc = "matched"
    /\ pc' = "ready"
    /\ query' = NoQuery
    /\ result' = NoCall
    /\ UNCHANGED <<world, line_number, regexes, invalid, walk>>

\* list_files: IgnoredFiles(mypath) was built with the default ignores
\* (the constructor's default), and os.walk(mypath) starts at the root.
WalkStart ==
    /\ pc = "ready"
    /\ use_default_ignores
    /\ pc' = "walk"
    /\ todo' = {Root}
    /\ UNCHANGED <<world, line_number, regexes, invalid, query, result, walked,
                   all_files>>

\* One turn of list_files' loop that completes: the directory's ignored
\* sub-directories are pruned, its files that are not ignored are listed.
WalkDir ==
    /\ pc = "walk"
    /\ \E dir \in todo :
          LET dirs == children(fs, dir, TRUE)
              files == children(fs, dir, FALSE)
          IN  /\ CanReturn(regexes, dirs, "True", fs)
              /\ CanReturn(regexes, files, "False", fs)
              /\ todo' = (todo \ {dir}) \cup remove_ignored_folders(regexes, dirs, fs)
              /\ walked' = walked \cup {dir}
              /\ all_files' = all_files \o SetToSeq(listed(regexes, files, fs))
    /\ UNCHANGED <<world, pc, line_number, regexes, invalid, query, result>>

\* One turn of list_files' loop in which a call of match raises: the
\* exception leaves list_files.
WalkRaise ==
    /\ pc = "walk"
    /\ \E dir \in todo :
          \/ CanRaise(regexes, children(fs, dir, TRUE), "True", fs)
          \/ CanRaise(regexes, children(fs, dir, FALSE), "False", fs)
    /\ pc' = "raised"
    /\ UNCHANGED <<world, line_number, regexes, invalid, query, result, walk>>

\* os.walk is exhausted: list_files returns all_files.
WalkReturn ==
    /\ pc = "walk"
    /\ todo = {}
    /\ pc' = "done"
    /\ UNCHANGED <<world, line_number, regexes, invalid, query, result, walk>>

Next ==
    \/ ParseMissing
    \/ ParseSkip
    \/ ParseNegation
    \/ ParseAdd
    \/ ParseEnd
    \/ Defaults
    \/ Match
    \/ MatchDone
    \/ WalkStart
    \/ WalkDir
    \/ WalkRaise
    \/ WalkReturn

Spec == Init /\ [][Next]_vars

(***************************************************************************)
(* Vocabulary of the properties                                            *)
(***************************************************************************)
Range(q) == {q[i] : i \in 1..Len(q)}

\* The rules and the diagnostics are being built, or have just been built:
\* no later step (a query, the walk) changes them.
Loading == pc \in {"parse", "defaults", "ready"}

\* Some active rule matches the path: Match can report it as excluded.
Excluded(full_path, is_dir) ==
    \E r \in regexes : pattern_match(r, full_path, is_dir, fs) = "True"

\* Match returns None for the path.
ReturnsNone(full_path, is_dir) ==
    match_outcomes(regexes, full_path, is_dir, fs) = {ReturnedNone}

\* The path list_files reports for a file.
Reported(full_path) == replace(full_path, Root \o <<"/">>)

FilesOf(tree) == {join(Root, e.path) : e \in {e \in tree : ~e.is_dir}}
DirsOf(tree) == {join(Root, e.path) : e \in {e \in tree : e.is_dir}}

\* The directories of the tree on the way from the root to the path.
Ancestors(full_path) ==
    {d \in DirsOf(fs) : startswith(full_path, d \o <<"/">>)}

\* The first non-blank character of a raw line is ch.
FirstNonBlankIs(line, ch) ==
    \E i \in 1..Len(line) :
        /\ line[i] = ch
        /\ \A j \in 1..(i - 1) : line[j] \in Whitespace

\* Line k of the ignore file is blank or a comment / a negation / a pattern.
BlankOrComment(k) ==
    \/ \A i \in 1..Len(lines[k]) : lines[k][i] \in Whitespace
    \/ FirstNonBlankIs(lines[k], "#")
NegationLine(k) == FirstNonBlankIs(lines[k], "!")
PatternLine(k) == ~BlankOrComment(k) /\ ~NegationLine(k)

\* The rule line k compiles to.
Compiled(k) == IgnorePattern(strip(lines[k]), k)
DefaultRule == IgnorePattern(Str_DOTGIT \o <<"/">>, 0)

\* The raw pattern ends with "/" and not with "*/".
SlashEnded(r) ==
    /\ r.pattern # None
    /\ r.pattern # <<>>
    /\ r.pattern[Len(r.pattern)] = "/"
    /\ (Len(r.pattern) >= 2 => r.pattern[Len(r.pattern) - 1] # "*")

\* Every rule object the load built, active or rejected.
AllCompiled ==
    regexes \cup {invalid[i].rule : i \in {i \in 1..Len(invalid) : invalid[i].rule # NoRule}}

(***************************************************************************)
(* C1: the pruning walk against a post-hoc filter                          *)
(***************************************************************************)
\* The full recursive listing, filtered with Match(file, is_dir=False).
PostHocFilter ==
    {Reported(f) : f \in {f \in FilesOf(fs) : ReturnsNone(f, "False")}}

\* C1 as claimed: when list_files returns, the set of files it reports
\* equals the full recursive listing filtered by Match on each file.
C1_PruningEqualsPostHocFilter ==
    pc = "done" => Range(all_files) = PostHocFilter

\* The full recursive listing, keeping a file when Match returns None for
\* it as a file and for every directory above it as a directory.
PostHocFilterWithAncestors ==
    {Reported(f) : f \in
        {f \in FilesOf(fs) :
            /\ ReturnsNone(f, "False")
            /\ \A d \in Ancestors(f) : ReturnsNone(d, "True")}}

\* C1 amended: when list_files returns, the set of files it reports equals
\* the full recursive listing filtered by Match on each file (is_dir=False)
\* and on each of the file's ancestor directories (is_dir=True).
C1_PruningEqualsAncestorFilter ==
    pc = "done" => Range(all_files) = PostHocFilterWithAncestors

\* A walk that returned, listed a file and left a directory unvisited whose
\* files the filter on files alone would keep.
C1_Witness ==
    /\ pc = "done"
    /\ all_files # <<>>
    /\ DirsOf(fs) \ walked # {}
    /\ PostHocFilter # PostHocFilterWithAncestors

(***************************************************************************)
(* C2: the middle form first/**/second                                     *)
(***************************************************************************)
\* first, then zero or more whole path segments, then second, and nothing
\* after it.
InMiddleLanguage(first, second, name) ==
    \/ name = first \o <<"/">> \o second
    \/ /\ Len(name) >= Len(first) + Len(second) + 3
       /\ startswith(name, first \o <<"/">>)
       /\ endswith(name, <<"/">> \o second)

MatchesName(r, name) == pattern_match(r, join(Root, name), "False", fs) = "True"

\* C2: the rule compiled from a/**/b matches a/b, a/x/b and a/x/y/b and
\* neither ax/b nor a/bx; it matches a path only if the path is first,
\* whole intermediate segments, second.
C2_MiddleFormMatchesWholeSegments ==
    \A r \in regexes :
        r.pattern = Str_P_MIDDLE =>
            /\ MatchesName(r, Str_A_B)
            /\ MatchesName(r, Str_A_X_B)
            /\ MatchesName(r, Str_A_X_Y_B)
            /\ ~MatchesName(r, Str_AX_B)
            /\ ~MatchesName(r, Str_A_BX)
            /\ \A name \in QueryPaths :
                  MatchesName(r, name) =>
                      InMiddleLanguage(<<"a">>, <<"b">>, name)

(***************************************************************************)
(* C3: patterns ending with "/" are directory-only                         *)
(***************************************************************************)
\* C3: every rule compiled from a pattern ending with "/" (not "*/") has
\* applies_to_directories set, whichever branch parsed it, and when it is
\* valid its match is False for a path given as a file (is_dir=False) and
\* for a path without a hint that is not a directory of the tree.
C3_SlashEndedIsDirectoryOnly ==
    /\ \A r \in (IF Loading THEN AllCompiled ELSE {}) :
          SlashEnded(r) =>
              /\ r.applies_to_directories
              /\ r.invalid = NotInvalid =>
                    \A name \in QueryPaths :
                        /\ pattern_match(r, join(Root, name), "False", fs) = "False"
                        /\ ~isdir(fs, join(Root, name)) =>
                              pattern_match(r, join(Root, name), "None", fs) = "False"
    /\ (pc = "matched" /\ result.kind = "rule" /\ SlashEnded(result.rule)) =>
          /\ query.is_dir # "False"
          /\ isdir(fs, query.path) \/ query.is_dir = "True"

\* A slash-ended rule that would match the queried name as a directory was
\* asked about it as a file of the tree, without a hint, and Match returned
\* None.
C3_Witness ==
    /\ pc = "matched"
    /\ result = ReturnedNone
    /\ query.is_dir = "None"
    /\ query.path \in FilesOf(fs)
    /\ \E r \in regexes :
          /\ SlashEnded(r)
          /\ r.regex # NoRegex
          /\ pattern_match(r, query.path, "True", fs) = "True"

C5_NothingRaises == pc # "raised"

(***************************************************************************)
(* C6: negation lines                                                      *)
(***************************************************************************)
NegationLines == {k \in 1..Len(lines) : NegationLine(k)}
NegationDiagnostics ==
    {i \in 1..Len(invalid) : invalid[i].text = "Negation pattern not supported"}

\* Some rule compiled from a line that is not a negation, or the default
\* rule, matches the path.
ExcludedWithoutNegations(full_path, is_dir) ==
    \/ \E k \in 1..Len(lines) :
          /\ PatternLine(k)
          /\ Compiled(k).invalid = NotInvalid
          /\ pattern_match(Compiled(k), full_path, is_dir, fs) = "True"
    \/ /\ use_default_ignores
       /\ pattern_match(DefaultRule, full_path, is_dir, fs) = "True"

\* C6: after the load, each negation line has added one diagnostic (naming
\* its line), no compiled rule comes from a negation line or holds a pattern
\* starting with "!", and the paths excluded are those excluded by the other
\* lines; a file holding only a negation of foo does not exclude foo.
C6_NegationLinesOnlyDiagnose ==
    pc = "ready" =>
        /\ Cardinality(NegationDiagnostics) = Cardinality(NegationLines)
        /\ \A k \in NegationLines :
              \E i \in NegationDiagnostics : invalid[i].line = k
        /\ \A r \in AllCompiled :
              /\ r.pattern[1] # "!"
              /\ r.line_number \notin NegationLines
        /\ \A name \in QueryPaths, h \in Hints :
              Excluded(join(Root, name), h)
                  <=> ExcludedWithoutNegations(join(Root, name), h)
        /\ (lines = <<Str_L_NEG_FOO>> /\ ~use_default_ignores) =>
              /\ regexes = {}
              /\ ReturnsNone(join(Root, Str_FOO), "None")

\* The file holds only the negation of foo, and Match was asked about the
\* file foo of the tree and returned None.
C6_Witness ==
    /\ pc = "matched"
    /\ lines = <<Str_L_NEG_FOO>>
    /\ Len(invalid) = 1
    /\ query.path = join(Root, Str_FOO)
    /\ query.path \in FilesOf(fs)
    /\ result = ReturnedNone

(***************************************************************************)
(* C7: excluded directories are never visited                              *)
(***************************************************************************)
\* The files that are under no excluded directory.
FilesOutsideExcluded ==
    {f \in FilesOf(fs) : \A d \in Ancestors(f) : ~Excluded(d, "True")}

\* C7: during the walk no directory that Match reports as excluded, and no
\* directory below one, is visited or waiting to be visited, and no file
\* below one is listed; with the defaults, the tree a.txt,
\* build/output.bin, .git/HEAD and the ignore file `build/`, list_files
\* returns exactly a.txt.
C7_ExcludedDirectoriesNeverVisited ==
    /\ \A d \in (walked \cup todo) \ {Root} :
          /\ ~Excluded(d, "True")
          /\ \A a \in Ancestors(d) : ~Excluded(a, "True")
    /\ all_files # <<>> =>
          Range(all_files) \subseteq {Reported(f) : f \in FilesOutsideExcluded}
    /\ ( /\ pc = "done"
         /\ fs = TreeScenario
         /\ lines = <<Str_L_BUILD_SLASH>>
         /\ use_default_ignores ) =>
          /\ all_files = <<Str_A_TXT>>
          /\ walked = {Root}

\* The scenario's walk has returned.
C7_Witness ==
    /\ pc = "done"
    /\ fs = TreeScenario
    /\ lines = <<Str_L_BUILD_SLASH>>
    /\ use_default_ignores
    /\ Cardinality(regexes) = 2
    /\ all_files = <<Str_A_TXT>>

(***************************************************************************)
(* C8: the answer does not depend on the order of the rules                *)
(***************************************************************************)
\* C8: whether a call of Match reports the path as excluded is decided by
\* the set of active rules alone: a rule is returned exactly when some rule
\* of the set matches the path.
C8_AnswerDependsOnlyOnRuleSet ==
    (pc \in {"matched", "raised"} /\ query # NoQuery) =>
        (result.kind = "rule" <=> Excluded(query.path, query.is_dir))

(***************************************************************************)
(* C9: a rejected line drops nothing else                                  *)
(***************************************************************************)
\* C9: after the load of an existing file every line was read; every line
\* that compiles is an active rule, whatever lines fail before or after it;
\* every line that fails to compile and every negation line is a diagnostic;
\* and the active rules are those lines and the default rule, nothing else.
C9_RejectedLinesDropNothing ==
    (pc = "ready" /\ file_exists) =>
        /\ line_number = Len(lines)
        /\ \A k \in 1..Len(lines) :
              /\ (PatternLine(k) /\ Compiled(k).invalid = NotInvalid) =>
                    Compiled(k) \in regexes
              /\ (PatternLine(k) /\ Compiled(k).invalid # NotInvalid) =>
                    Rejected(Compiled(k)) \in Range(invalid)
              /\ NegationLine(k) =>
                    Message("Negation pattern not supported", k) \in Range(invalid)
        /\ regexes \subseteq
              {Compiled(k) : k \in {k \in 1..Len(lines) : PatternLine(k)}}
                  \cup {DefaultRule}
        /\ Len(invalid) =
              Cardinality({k \in 1..Len(lines) :
                  NegationLine(k) \/ (PatternLine(k) /\ Compiled(k).invalid # NotInvalid)})

\* A file whose first line fails to compile and whose second line is a
\* valid rule has been loaded.
C9_Witness ==
    /\ pc = "ready"
    /\ Len(lines) = 2
    /\ PatternLine(1)
    /\ Compiled(1).invalid # NotInvalid
    /\ PatternLine(2)
    /\ Compiled(2) \in regexes
    /\ Len(invalid) = 1

(***************************************************************************)
(* C10: the leading form with a path suffix                                *)
(***************************************************************************)
\* C10: the rule compiled from **/foo/bar matches a relative path exactly
\* when the path ends with /foo/bar: x/foo/bar and x/y/foo/bar match,
\* x/foo/barbaz and x/foo/bar/more do not.
C10_LeadingFormMatchesPathsEndingWithSuffix ==
    \A r \in regexes :
        r.pattern = Str_P_LEAD_PATH =>
            /\ MatchesName(r, Str_X_FOO_BAR)
            /\ MatchesName(r, Str_X_Y_FOO_BAR)
            /\ ~MatchesName(r, Str_X_FOO_BARBAZ)
            /\ ~MatchesName(r, Str_X_FOO_BAR_MORE)
            /\ \A name \in QueryPaths :
                  MatchesName(r, name)
                      <=> endswith(name, <<"/">> \o Str_FOO_BAR)

=============================================================================
